---- MODULE Spec2Model ----
(***************************************************************************)
(* Model of elfutils' split-unit resolver (libdw/libdw_find_split_unit.c)  *)
(* and of the DWARF expression printer of tests/varlocs.c.                 *)
(*                                                                         *)
(* The resolver is modelled statement by statement: every caller of        *)
(* __libdw_find_split_unit has a position (pc) and the function's locals.  *)
(* Spec runs one caller (the library is used single-threaded), SpecConc    *)
(* runs NumCallers callers whose statements interleave.                    *)
(*                                                                         *)
(* The expression printer is modelled as the stack of print_expr_block     *)
(* activations; one step is one call of print_expr (SpecExpr).             *)
(***************************************************************************)
EXTENDS Integers, Sequences, FiniteSets, TLC

\* ---------------------------------------------------------------- bounds
NumMain == 1        \* units of the main debug file
NumCallers == 2     \* callers of the resolver in SpecConc
MaxUnits == 2       \* units in one companion (.dwo) container
MaxId == 2          \* distinct 8-byte unit signatures
MaxOps == 2         \* operations in one location expression
MaxAddr == 1        \* program addresses 0 .. MaxAddr
MaxLocs == 2        \* entries in one location list
MaxSize == 4        \* DW_AT_byte_size and DW_AT_bit_size are 0 .. MaxSize
MaxBlock == 2       \* bytes in the block of an operation

\* ------------------------------------------------------ program constants
MAX_DEPTH == 64

\* ------------------------------------------------------- values and handles
\* A unit handle names a Dwarf_CU: dbg = 0 is the main file, dbg = d > 0 is
\* the d-th container created by dwarf_begin; idx is the header-order position.
NULL == [dbg |-> -1, idx |-> 0]
Unresolved == [dbg |-> -1, idx |-> -1]

MainKinds == {"DW_UT_skeleton", "DW_UT_compile"}
DwoKinds == {"DW_UT_split_compile", "DW_UT_split_type"}

Callers == 1 .. NumCallers
MainHandles == {[dbg |-> 0, idx |-> i] : i \in 1 .. NumMain}

MainUnit(k, id, n, d) ==
  [unit_type |-> k, unit_id8 |-> id, split |-> Unresolved,
   dwo_name |-> n, comp_dir |-> d]

\* A unit of a .dwo file names its own file and carries no comp_dir.
DwoUnit(k, id) ==
  [unit_type |-> k, unit_id8 |-> id, split |-> Unresolved,
   dwo_name |-> TRUE, comp_dir |-> FALSE]

\* Units of the main file, with or without the two attributes the resolver
\* reads.
\* Every unit of one file has its own signature.
MainUnits(i) ==
  LET id == ((i - 1) % MaxId) + 1
  IN {MainUnit(k, id, n, d) : k \in MainKinds, n \in BOOLEAN, d \in BOOLEAN}

DwoUnits == {DwoUnit(k, id) : k \in DwoKinds, id \in 1 .. MaxId}

\* What a companion file can hold: 0 .. MaxUnits unit headers in order.
Contents == UNION {[1 .. n -> DwoUnits] : n \in 0 .. MaxUnits}

VARIABLES
  main,        \* units of the main Dwarf: Seq of unit records
  dwos,        \* containers made by dwarf_begin: Seq of [cus, ends, fildes],
               \* cus = the units read from the file so far
  fds,         \* descriptors open in the process
  crashed,     \* the process died on a use of freed memory
  pc,          \* per caller: position in __libdw_find_split_unit
  cu,          \* per caller: the argument
  entry,       \* per caller: cu->split as read at line 50
  comp_dir,    \* per caller: local comp_dir
  dwo_path,    \* per caller: local dwo_path
  split_fd,    \* per caller: local split_fd
  split_dwarf, \* per caller: local split_dwarf (container index, 0 = NULL)
  file,        \* per caller: what the file behind split_fd holds
  split,       \* per caller: local split (scan cursor)
  ret,         \* per caller: returned value
  trace        \* per caller: library/OS calls made by the current call

VARIABLES
  is_ET_REL,   \* varlocs.c global: the module is a relocatable object file
  is_debug,    \* varlocs.c global: --debug was given
  cfi_eh,      \* varlocs.c global: .eh_frame CFI or "NULL"
  cfi_debug,   \* varlocs.c global: .debug_frame CFI or "NULL"
  has_frame_base, \* varlocs.c global: the function has a DW_AT_frame_base
  dw,          \* varlocs.c global: the Dwarf data that operands refer to
  offset,      \* print_varlocs: entries of the location list walked so far,
               \* -1 when no list is walked
  frames,      \* print_expr_block activations: Seq of [attr, exprs, i, addr, depth]
  est,         \* "idle", "run", "done", or "error" after error (EXIT_FAILURE, ...)
  err,         \* the message of that error
  out,         \* what was printed
  last         \* the latest print_expr call: [atom, attr, depth, addr],
               \* frame = what the CFI lookup found, loc = what
               \* dwarf_getlocation_addr returned, bits = the size
               \* print_base_type printed

rvars == <<main, dwos, fds, crashed, pc, cu, entry, comp_dir,
           dwo_path, split_fd, split_dwarf, file, split, ret, trace>>
env == <<is_ET_REL, is_debug, cfi_eh, cfi_debug, has_frame_base, dw, offset>>
evars == <<env, frames, est, err, out, last>>
vars == <<rvars, evars>>

\* ------------------------------------------------------------- accessors
CU(u) == IF u.dbg = 0 THEN main[u.idx] ELSE dwos[u.dbg].cus[u.idx]

DwoHandles ==
  UNION {{[dbg |-> d, idx |-> i] : i \in 1 .. Len(dwos[d].cus)} :
           d \in 1 .. Len(dwos)}

Exists(u) == u.dbg = 0 \/ (u.dbg \in 1 .. Len(dwos) /\ u.idx \in 1 .. Len(dwos[u.dbg].cus))

\* dwarf_end has run on container d: its memory (units included) is freed.
Ended(d) == dwos[d].ends > 0

\* Units a caller can hold a valid pointer to: the units of the main file and
\* the split units that main-file units link to (the container of a companion
\* file is private to the resolve call until then).
LiveUnits ==
  MainHandles
  \cup {u \in DwoHandles : /\ ~Ended(u.dbg)
                           /\ \E i \in 1 .. NumMain : main[i].split = u}

MainSet(m, u, v) == IF u.dbg = 0 THEN [m EXCEPT ![u.idx].split = v] ELSE m

DwoSet(d, u, v) ==
  IF u.dbg > 0 THEN [d EXCEPT ![u.dbg].cus[u.idx].split = v] ELSE d

\* open(2) hands out the lowest free descriptor.
NewFd == CHOOSE n \in 3 .. (3 + NumCallers) : n \notin fds /\ \A m \in 3 .. (n - 1) : m \in fds

Log(c, e) == [trace EXCEPT ![c] = Append(@, e)]

\* ------------------------------------------------------------------ Init
\* dwarf_getlocation_addr was not called.
NoLookup == [locs |-> -2, idx |-> 0, ops |-> <<>>]

NoCall ==
  [atom |-> "none", attr |-> "NULL", depth |-> 0, addr |-> 0,
   frame |-> "n/a", loc |-> NoLookup, bits |-> -1]

\* The data behind the operands of the operations of an expression:
\*   call_ops   the location expression of the DIE a DW_OP_call* refers to
\*   entry_ops  the block of a DW_OP_entry_value
\*   cfa_ops    the expression dwarf_frame_cfa makes of a frame
\*   attrval    the attribute of the DIE a DW_OP_implicit_pointer or
\*              DW_OP_GNU_variable_value refers to: its name and, for a
\*              location, its entries [begin, end, ops]
\*   attr_ok    the operand of an operation leads to an attribute
\*   die_ok     the operand of an operation leads to a DIE
\*   loc_ok     the attribute found holds a single location expression
\*   type       the DIE a typed operation refers to: its tag, whether
\*              DW_AT_encoding is there and readable, and the values of
\*              DW_AT_byte_size and DW_AT_bit_size (-1: not there or not
\*              readable)
\*   number     the first operand of the operation (expr->number)
\*   block      the block dwarf_formblock reads from the found attribute
\*   block_impl the block dwarf_getlocation_implicit_value returns
\*   block_ok   the attribute found has a block form
NoData ==
  [call_ops |-> <<>>, entry_ops |-> <<>>, cfa_ops |-> <<>>,
   attrval |-> [at |-> "DW_AT_const_value", locs |-> <<>>],
   attr_ok |-> TRUE, die_ok |-> TRUE, loc_ok |-> TRUE,
   type |-> [tag |-> "DW_TAG_base_type", encoding |-> TRUE,
             byte_size |-> 1, bit_size |-> -1],
   number |-> 0, block |-> <<>>, block_impl |-> <<>>, block_ok |-> TRUE]

\* No expression is being printed.
ExprIdle ==
  /\ is_ET_REL = FALSE
  /\ is_debug = FALSE
  /\ cfi_eh = "NULL"
  /\ cfi_debug = "NULL"
  /\ has_frame_base = FALSE
  /\ dw = NoData
  /\ offset = -1
  /\ frames = <<>>
  /\ est = "idle"
  /\ err = ""
  /\ out = <<>>
  /\ last = NoCall

ResolverInit ==
  /\ main \in {m \in [1 .. NumMain -> UNION {MainUnits(i) : i \in 1 .. NumMain}] :
               \A i \in 1 .. NumMain : m[i] \in MainUnits(i)}
  /\ dwos = <<>>
  /\ fds = {}
  /\ crashed = FALSE
  /\ pc = [c \in Callers |-> "idle"]
  /\ cu = [c \in Callers |-> NULL]
  /\ entry = [c \in Callers |-> NULL]
  /\ comp_dir = [c \in Callers |-> "NULL"]
  /\ dwo_path = [c \in Callers |-> "NULL"]
  /\ split_fd = [c \in Callers |-> -1]
  /\ split_dwarf = [c \in Callers |-> 0]
  /\ file = [c \in Callers |-> <<>>]
  /\ split = [c \in Callers |-> NULL]
  /\ ret = [c \in Callers |-> NULL]
  /\ trace = [c \in Callers |-> <<>>]

Init ==
  /\ ExprIdle
  /\ ResolverInit

\* ------------------------------------------------ __libdw_find_split_unit
\* Line 50: cu->split != (Dwarf_CU *) -1.
Memoized_Never(u) == FALSE

Memoized(u) == CU(u).split # Unresolved

\* Line 56: cu->unit_type == DW_UT_skeleton.
IsSkeleton_Any(u) == TRUE

IsSkeleton(u) == CU(u).unit_type = "DW_UT_skeleton"

\* Line 106: close (split_fd).
CloseFd_Leak(open, fd) == open

CloseFd(open, fd) == open \ {fd}

\* Lines 47-57: entry, "only try once" test, unit_type test.
Call(c, u) ==
  /\ ~crashed
  /\ UNCHANGED evars
  /\ pc[c] = "idle"
  /\ u \in LiveUnits
  /\ cu' = [cu EXCEPT ![c] = u]
  /\ entry' = [entry EXCEPT ![c] = CU(u).split]
  /\ IF Memoized(u)
       THEN /\ ret' = [ret EXCEPT ![c] = CU(u).split]
            /\ pc' = [pc EXCEPT ![c] = "done"]
       ELSE /\ pc' = [pc EXCEPT ![c] =
                        IF IsSkeleton(u)
                          THEN "attrs" ELSE "final"]
            /\ UNCHANGED ret
  /\ UNCHANGED <<main, dwos, fds, crashed, comp_dir, dwo_path, split_fd,
                 split_dwarf, file, split, trace>>

\* Lines 58-67: comp_dir and [GNU_]dwo_name attributes of the unit DIE.
Attrs(c) ==
  /\ ~crashed
  /\ UNCHANGED evars
  /\ pc[c] = "attrs"
  /\ IF CU(cu[c]).dwo_name
       THEN /\ comp_dir' = [comp_dir EXCEPT ![c] =
                              IF CU(cu[c]).comp_dir THEN "dir" ELSE "NULL"]
            /\ pc' = [pc EXCEPT ![c] = "filepath1"]
       ELSE /\ pc' = [pc EXCEPT ![c] = "final"]
            /\ UNCHANGED comp_dir
  /\ UNCHANGED <<main, dwos, fds, crashed, cu, entry,
                 dwo_path, split_fd, split_dwarf, file, split, ret, trace>>

\* Lines 68-70: __libdw_filepath (debugdir, NULL, dwo_file).
Filepath1_Both(c) ==
  /\ ~crashed
  /\ UNCHANGED evars
  /\ pc[c] = "filepath1"
  /\ \E p \in {"NULL", "path1"} :
       /\ dwo_path' = [dwo_path EXCEPT ![c] = p]
       /\ pc' = [pc EXCEPT ![c] =
                   IF comp_dir[c] # "NULL" THEN "filepath2"
                   ELSE IF p # "NULL" THEN "open" ELSE "final"]
  /\ trace' = Log(c, "filepath(NULL)")
  /\ UNCHANGED <<main, dwos, fds, crashed, cu, entry,
                 comp_dir, split_fd, split_dwarf, file, split, ret>>

Filepath1(c) ==
  /\ ~crashed
  /\ UNCHANGED evars
  /\ pc[c] = "filepath1"
  /\ \E p \in {"NULL", "path1"} :
       /\ dwo_path' = [dwo_path EXCEPT ![c] = p]
       /\ pc' = [pc EXCEPT ![c] =
                   IF p # "NULL" THEN "open"
                   ELSE IF comp_dir[c] # "NULL" THEN "filepath2" ELSE "final"]
  /\ trace' = Log(c, "filepath(NULL)")
  /\ UNCHANGED <<main, dwos, fds, crashed, cu, entry,
                 comp_dir, split_fd, split_dwarf, file, split, ret>>

\* Lines 70-72: __libdw_filepath (debugdir, comp_dir, dwo_file).
Filepath2(c) ==
  /\ ~crashed
  /\ UNCHANGED evars
  /\ pc[c] = "filepath2"
  /\ \E p \in {"NULL", "path2"} :
       /\ dwo_path' = [dwo_path EXCEPT ![c] = p]
       /\ pc' = [pc EXCEPT ![c] = IF p # "NULL" THEN "open" ELSE "final"]
  /\ trace' = Log(c, "filepath(comp_dir)")
  /\ UNCHANGED <<main, dwos, fds, crashed, cu, entry,
                 comp_dir, split_fd, split_dwarf, file, split, ret>>

\* Lines 74-75 (and 108 when the open fails).
Open(c) ==
  /\ ~crashed
  /\ UNCHANGED evars
  /\ pc[c] = "open"
  /\ \E ok \in BOOLEAN :
       IF ok
         THEN /\ split_fd' = [split_fd EXCEPT ![c] = NewFd]
              /\ fds' = fds \cup {NewFd}
              /\ pc' = [pc EXCEPT ![c] = "dwarf_begin"]
         ELSE /\ split_fd' = [split_fd EXCEPT ![c] = -1]
              /\ pc' = [pc EXCEPT ![c] = "final"]
              /\ UNCHANGED fds
  /\ trace' = Log(c, "open")
  /\ UNCHANGED <<main, dwos, crashed, cu, entry, comp_dir,
                 dwo_path, split_dwarf, file, split, ret>>

\* Lines 77-80: dwarf_begin (split_fd, DWARF_C_READ); split = NULL.
DwarfBegin(c) ==
  /\ ~crashed
  /\ UNCHANGED evars
  /\ pc[c] = "dwarf_begin"
  /\ \/ /\ split_dwarf' = [split_dwarf EXCEPT ![c] = 0]
        /\ pc' = [pc EXCEPT ![c] = "close"]
        /\ UNCHANGED <<dwos, file>>
     \/ \E content \in Contents :
          /\ file' = [file EXCEPT ![c] = content]
          /\ dwos' = Append(dwos, [cus |-> <<>>, ends |-> 0,
                                   fildes |-> split_fd[c]])
          /\ split_dwarf' = [split_dwarf EXCEPT ![c] = Len(dwos) + 1]
          /\ pc' = [pc EXCEPT ![c] = "get_units"]
  /\ split' = [split EXCEPT ![c] = NULL]
  /\ trace' = Log(c, "dwarf_begin")
  /\ UNCHANGED <<main, fds, crashed, cu, entry, comp_dir,
                 dwo_path, split_fd, ret>>

\* Position of the unit header after the cursor.
NextIdx(c) == IF split[c] = NULL THEN 1 ELSE split[c].idx + 1

\* Lines 81-82: dwarf_get_units (split_dwarf, split, &split, ...) == 0 reads
\* the next unit header of the file into the container.  On a container that
\* line 100 already freed the call works on freed memory: it may still find
\* what was there, or fail.
GetUnits(c) ==
  /\ ~crashed
  /\ UNCHANGED evars
  /\ pc[c] = "get_units"
  /\ LET d == split_dwarf[c]
         i == NextIdx(c)
     IN \E stale \in IF Ended(d) THEN BOOLEAN ELSE {TRUE} :
          IF stale /\ i <= Len(file[c])
            THEN /\ dwos' = [dwos EXCEPT ![d].cus = Append(@, file[c][i])]
                 /\ split' = [split EXCEPT ![c] = [dbg |-> d, idx |-> i]]
                 /\ pc' = [pc EXCEPT ![c] = "loop_body"]
            ELSE /\ pc' = [pc EXCEPT ![c] = "close"]
                 /\ UNCHANGED <<dwos, split>>
  /\ trace' = Log(c, "get_units")
  /\ UNCHANGED <<main, fds, crashed, cu, entry, comp_dir, dwo_path, split_fd,
                 split_dwarf, file, ret>>

\* Line 84-85: the match test.
IsMatch(c) ==
  /\ CU(split[c]).unit_type = "DW_UT_split_compile"
  /\ CU(cu[c]).unit_id8 = CU(split[c]).unit_id8

\* Lines 84-100: the body of the scan loop.  When line 100 has freed the
\* container in an earlier iteration, split points into freed memory: the
\* store of line 89 may or may not survive there.
LoopBody(c) ==
  /\ ~crashed
  /\ UNCHANGED evars
  /\ pc[c] = "loop_body"
  /\ LET d == split_dwarf[c]
         freed == Ended(d)
     IN   IF IsMatch(c)
            THEN \* lines 88-96
                 /\ main' = MainSet(main, cu[c], split[c])
                 /\ \E w \in IF freed THEN {cu[c], CU(split[c]).split} ELSE {cu[c]} :
                      dwos' = [DwoSet(dwos, split[c], w) EXCEPT ![d].fildes = -1]
                 /\ trace' = Log(c, "elf_cntl")
                 /\ pc' = [pc EXCEPT ![c] = "close"]
            ELSE \* lines 99-100
                 /\ IF CU(cu[c]).split = Unresolved
                      THEN /\ dwos' = [dwos EXCEPT ![d].ends = @ + 1]
                           /\ trace' = Log(c, "dwarf_end")
                      ELSE UNCHANGED <<dwos, trace>>
                 /\ pc' = [pc EXCEPT ![c] = "get_units"]
                 /\ UNCHANGED main
  /\ UNCHANGED <<fds, crashed, cu, entry, comp_dir,
                 dwo_path, split_fd, split_dwarf, file, split, ret>>

\* Lines 81-100 after line 100 freed the container: any access to it can
\* also end the process.
Segfault(c) ==
  /\ ~crashed
  /\ UNCHANGED evars
  /\ pc[c] \in {"get_units", "loop_body"}
  /\ Ended(split_dwarf[c])
  /\ crashed' = TRUE
  /\ UNCHANGED <<main, dwos, fds, pc, cu, entry, comp_dir,
                 dwo_path, split_fd, split_dwarf, file, split, ret, trace>>

\* Lines 106-108: close (split_fd); free (dwo_path).
Close(c) ==
  /\ ~crashed
  /\ UNCHANGED evars
  /\ pc[c] = "close"
  /\ fds' = CloseFd(fds, split_fd[c])
  /\ trace' = Log(c, "close")
  /\ pc' = [pc EXCEPT ![c] = "final"]
  /\ UNCHANGED <<main, dwos, crashed, cu, entry, comp_dir,
                 dwo_path, split_fd, split_dwarf, file, split, ret>>

\* Lines 113-117: "If we found nothing, make sure we don't try again."
Final(c) ==
  /\ ~crashed
  /\ UNCHANGED evars
  /\ pc[c] = "final"
  /\ LET v == IF CU(cu[c]).split = Unresolved THEN NULL ELSE CU(cu[c]).split
     IN /\ main' = MainSet(main, cu[c], v)
        /\ dwos' = DwoSet(dwos, cu[c], v)
        /\ ret' = [ret EXCEPT ![c] = v]
  /\ pc' = [pc EXCEPT ![c] = "done"]
  /\ UNCHANGED <<fds, crashed, cu, entry, comp_dir, dwo_path,
                 split_fd, split_dwarf, file, split, trace>>

\* What is left of a container once its memory is back with the allocator.
Freed == [cus |-> <<>>, ends |-> 1, fildes |-> -1]

\* The caller takes the result; the frame and its locals are gone, and so is
\* whatever the freed memory of a discarded container still held.
Return(c) ==
  /\ ~crashed
  /\ UNCHANGED evars
  /\ pc[c] = "done"
  /\ dwos' = IF split_dwarf[c] > 0 /\ Ended(split_dwarf[c])
              THEN [dwos EXCEPT ![split_dwarf[c]] = Freed]
              ELSE dwos
  /\ pc' = [pc EXCEPT ![c] = "idle"]
  /\ cu' = [cu EXCEPT ![c] = NULL]
  /\ entry' = [entry EXCEPT ![c] = NULL]
  /\ comp_dir' = [comp_dir EXCEPT ![c] = "NULL"]
  /\ dwo_path' = [dwo_path EXCEPT ![c] = "NULL"]
  /\ split_fd' = [split_fd EXCEPT ![c] = -1]
  /\ split_dwarf' = [split_dwarf EXCEPT ![c] = 0]
  /\ file' = [file EXCEPT ![c] = <<>>]
  /\ split' = [split EXCEPT ![c] = NULL]
  /\ ret' = [ret EXCEPT ![c] = NULL]
  /\ trace' = [trace EXCEPT ![c] = <<>>]
  /\ UNCHANGED <<main, fds, crashed>>

Step(c) ==
  \/ \E u \in LiveUnits : Call(c, u)
  \/ Attrs(c)
  \/ Filepath1(c)
  \/ Filepath2(c)
  \/ Open(c)
  \/ DwarfBegin(c)
  \/ GetUnits(c)
  \/ LoopBody(c)
  \/ Segfault(c)
  \/ Close(c)
  \/ Final(c)
  \/ Return(c)

\* One caller at a time: the single-threaded use of the library.
Next == Step(1)

Spec == Init /\ [][Next]_vars

\* Callers whose statements interleave.
NextConc == \E c \in Callers : Step(c)

SpecConc == Init /\ [][NextConc]_vars

\* ------------------------------------------------- varlocs.c: print_expr
\* Opcodes of the model: one of the register-relative class, the call-frame
\* canonical address, and one that no case of the switch handles.
Atoms == {"DW_OP_breg7", "DW_OP_call_frame_cfa", "DW_OP_hi_user"}

Exprs(lo) == UNION {[1 .. n -> Atoms] : n \in lo .. MaxOps}

\* The resolver is not in use while an expression is printed.
ResolverIdle ==
  /\ main = [i \in 1 .. NumMain |->
               MainUnit("DW_UT_compile", ((i - 1) % MaxId) + 1, FALSE, TRUE)]
  /\ dwos = <<>>
  /\ fds = {}
  /\ crashed = FALSE
  /\ pc = [c \in Callers |-> "idle"]
  /\ cu = [c \in Callers |-> NULL]
  /\ entry = [c \in Callers |-> NULL]
  /\ comp_dir = [c \in Callers |-> "NULL"]
  /\ dwo_path = [c \in Callers |-> "NULL"]
  /\ split_fd = [c \in Callers |-> -1]
  /\ split_dwarf = [c \in Callers |-> 0]
  /\ file = [c \in Callers |-> <<>>]
  /\ split = [c \in Callers |-> NULL]
  /\ ret = [c \in Callers |-> NULL]
  /\ trace = [c \in Callers |-> <<>>]

\* Lines 183-190, 1131-1141: a location expression of an attribute is printed
\* from depth 0, with the module's CFI tables and modes set by main.
InitExpr ==
  /\ ResolverIdle
  /\ is_ET_REL \in BOOLEAN
  /\ is_debug \in BOOLEAN
  /\ cfi_eh \in {"NULL", "eh"}
  /\ cfi_debug \in {"NULL", "debug"}
  /\ has_frame_base = FALSE
  /\ dw = NoData
  /\ offset = -1
  /\ \E e \in Exprs(1), a \in 0 .. MaxAddr :
       frames = <<[attr |-> "attr", exprs |-> e, i |-> 1, addr |-> a, depth |-> 0]>>
  /\ est = "run"
  /\ err = ""
  /\ out = <<>>
  /\ last = NoCall

Top == frames[Len(frames)]

\* print_expr is about to be called on an operation with opcode a.
AtOp(a) ==
  /\ est = "run"
  /\ frames # <<>>
  /\ Top.i <= Len(Top.exprs)
  /\ Top.exprs[Top.i] = a

\* error (EXIT_FAILURE, 0, msg): the program ends.
Fail(msg) ==
  /\ est' = "error"
  /\ err' = msg
  /\ UNCHANGED <<frames, out>>

\* The operation is done (break): print_expr_block goes on with the next one.
Advance(printed) ==
  /\ frames' = [frames EXCEPT ![Len(frames)].i = @ + 1]
  /\ out' = out \o printed
  /\ UNCHANGED <<est, err>>

\* Lines 195-197: the recursion guard in front of the switch.
Guarded_Early(A) ==
  IF Top.depth >= MAX_DEPTH
    THEN Fail("print_expr recursion depth exceeded")
    ELSE A

Guarded(A) ==
  IF Top.depth > MAX_DEPTH
    THEN Fail("print_expr recursion depth exceeded")
    ELSE A

\* print_expr_block (a, ops, len, addr, depth) called from print_expr, after
\* the depth++ of line 196.
Nest_SameDepth(a, ops, printed) ==
  /\ frames' = Append(frames, [attr |-> a, exprs |-> ops, i |-> 1,
                                addr |-> Top.addr, depth |-> Top.depth])
  /\ out' = out \o printed
  /\ UNCHANGED <<est, err>>

Nest(a, ops, printed) ==
  /\ frames' = Append(frames, [attr |-> a, exprs |-> ops, i |-> 1,
                                addr |-> Top.addr, depth |-> Top.depth + 1])
  /\ out' = out \o printed
  /\ UNCHANGED <<est, err>>

Called(a, fr) ==
  [atom |-> a, attr |-> Top.attr, depth |-> Top.depth, addr |-> Top.addr,
   frame |-> fr, loc |-> NoLookup, bits |-> -1]

\* Lines 366-369: DW_OP_breg0 ... DW_OP_breg31.
PrintBreg ==
  /\ AtOp("DW_OP_breg7")
  /\ last' = Called("DW_OP_breg7", "n/a")
  /\ Guarded(Advance(<<"DW_OP_breg7">>))
  /\ UNCHANGED <<rvars, env>>

\* Lines 275-277: dwarf_cfi_addrframe (cfi, addr + bias, &frame) == 0; a
\* table that is not there has no frame for any address.
AddrFrame(cfi) == IF cfi = "NULL" THEN {FALSE} ELSE BOOLEAN

\* Line 289: is_ET_REL || is_debug.
Relaxed_Always == TRUE

Relaxed_Debug == is_debug

Relaxed == is_ET_REL \/ is_debug

\* Lines 260-298: DW_OP_call_frame_cfa, E being the expressions that
\* dwarf_frame_cfa can make of the frames of the module's CFI.
PrintCallFrameCfaIn(E) ==
  /\ AtOp("DW_OP_call_frame_cfa")
  /\ \E eh \in AddrFrame(cfi_eh), dbg \in AddrFrame(cfi_debug),
        rc \in {0, -1}, cfa_ops \in E :
       LET found == eh \/ dbg
           looked == /\ Top.depth <= MAX_DEPTH
                     /\ Top.attr # "NULL"
                     /\ ~(cfi_eh = "NULL" /\ cfi_debug = "NULL" /\ ~is_debug)
       IN /\ last' = Called("DW_OP_call_frame_cfa",
                            IF ~looked THEN "n/a"
                            ELSE IF found THEN "found" ELSE "none")
          /\ Guarded(
               IF Top.attr = "NULL"
                 THEN Fail("DW_OP_call_frame_cfa used in CFI")
               ELSE IF cfi_eh = "NULL" /\ cfi_debug = "NULL" /\ ~is_debug
                 THEN Fail("DW_OP_call_frame_cfa used but no cfi found.")
               ELSE IF found
                 THEN IF rc # 0
                        THEN Fail("dwarf_frame_cfa")
                      ELSE IF Len(cfa_ops) < 1
                        THEN Fail("dwarf_frame_cfa no ops")
                      ELSE /\ frames' = Append(frames,
                                [attr |-> "NULL", exprs |-> cfa_ops, i |-> 1,
                                 addr |-> 0, depth |-> Top.depth + 1])
                           /\ out' = out \o <<"DW_OP_call_frame_cfa ", "{">>
                           /\ UNCHANGED <<est, err>>
               ELSE IF Relaxed
                 THEN Advance(<<"DW_OP_call_frame_cfa ", "{...}">>)
               ELSE Fail("dwarf_cfi_addrframe"))
  /\ UNCHANGED <<rvars, env>>

PrintCallFrameCfa == PrintCallFrameCfaIn(Exprs(0))

\* Lines 703-705: default.
PrintUnhandled_Skip ==
  /\ AtOp("DW_OP_hi_user")
  /\ last' = Called("DW_OP_hi_user", "n/a")
  /\ Guarded(Advance(<<>>))
  /\ UNCHANGED <<rvars, env>>

PrintUnhandled ==
  /\ AtOp("DW_OP_hi_user")
  /\ last' = Called("DW_OP_hi_user", "n/a")
  /\ Guarded(Fail("unhandled opcode"))
  /\ UNCHANGED <<rvars, env>>

\* Lines 174-179 and 286-288: the loop of print_expr_block is through; the
\* operation that started the block is done too.
BlockDone ==
  /\ est = "run"
  /\ frames # <<>>
  /\ Top.i > Len(Top.exprs)
  /\ IF Len(frames) = 1
       THEN /\ frames' = <<>>
            /\ est' = "done"
       ELSE /\ frames' = [SubSeq(frames, 1, Len(frames) - 1)
                            EXCEPT ![Len(frames) - 1].i = @ + 1]
            /\ UNCHANGED est
  /\ out' = Append(out, "}")
  /\ UNCHANGED <<rvars, env, err, last>>

NextExpr ==
  \/ PrintBreg
  \/ PrintCallFrameCfa
  \/ PrintUnhandled
  \/ BlockDone

SpecExpr == InitExpr /\ [][NextExpr]_vars

\* ------------------------------------------- print_expr: nested expressions
ExprsOf(A, lo) == UNION {[1 .. n -> A] : n \in lo .. MaxOps}

\* The libdw accessors that find an operand through the attribute the
\* expression was read from: they fail without an attribute, and with one
\* when the operand does not lead to an attribute or a DIE.
dwarf_getlocation_attr(a) == IF a = "NULL" \/ ~dw.attr_ok THEN -1 ELSE 0

dwarf_getlocation_die(a) == IF a = "NULL" \/ ~dw.die_ok THEN -1 ELSE 0

dwarf_getlocation_implicit_pointer(a) ==
  IF a = "NULL" \/ ~dw.attr_ok THEN -1 ELSE 0

\* dwarf_getlocation on an attribute that was found: it fails when the
\* attribute does not hold a single location expression.
dwarf_getlocation == IF dw.loc_ok THEN 0 ELSE -1

\* The entry covers the address: begin <= a < end.
Covers(e, a) == e.begin <= a /\ a < e.end

Matches(locs, a) == {i \in DOMAIN locs : Covers(locs[i], a)}

\* dwarf_getlocation_addr (attr, a, &ops, &len, 1): the one entry that covers
\* the address; none is 0, more than one is an error.
dwarf_getlocation_addr(locs, a) ==
  LET m == Matches(locs, a)
  IN IF m = {} THEN [locs |-> 0, idx |-> 0, ops |-> <<>>]
     ELSE IF Cardinality(m) = 1
       THEN LET i == CHOOSE j \in m : TRUE
            IN [locs |-> 1, idx |-> i, ops |-> locs[i].ops]
     ELSE [locs |-> -1, idx |-> 0, ops |-> <<>>]

\* Lines 329-357: DW_OP_call2, DW_OP_call4, DW_OP_call_ref.
PrintCall ==
  /\ AtOp("DW_OP_call4")
  /\ last' = Called("DW_OP_call4", "n/a")
  /\ LET rc_attr == dwarf_getlocation_attr(Top.attr)
         rc_die == dwarf_getlocation_die(Top.attr)
         rc_loc == dwarf_getlocation
     IN Guarded(
         IF Top.attr = "NULL"
           THEN Fail("DW_OP_call4 used in CFI")
         ELSE IF rc_attr # 0
           THEN Fail("dwarf_getlocation_attr for DW_OP_call4 error")
         ELSE IF rc_die # 0
           THEN Fail("dwarf_getlocation_die for DW_OP_call4 error")
         ELSE IF rc_loc # 0
           THEN Fail("dwarf_getlocation for entry")
         ELSE Nest("call_attr", dw.call_ops, <<"DW_OP_call4 ", "{">>))
  /\ UNCHANGED <<rvars, env>>

\* Lines 519-541: DW_OP_entry_value, DW_OP_GNU_entry_value.
PrintEntryValue ==
  /\ AtOp("DW_OP_entry_value")
  /\ last' = Called("DW_OP_entry_value", "n/a")
  /\ LET rc_attr == dwarf_getlocation_attr(Top.attr)
         rc_loc == dwarf_getlocation
     IN Guarded(
         IF rc_attr # 0
           THEN Fail("dwarf_getlocation_attr")
         ELSE IF rc_loc # 0
           THEN Fail("dwarf_getlocation for entry")
         ELSE Nest(Top.attr, dw.entry_ops, <<"DW_OP_entry_value ", "{">>))
  /\ UNCHANGED <<rvars, env>>

\* Lines 458-475 and 498-515: the attribute the operation refers to is a
\* constant, or a location that is looked up at the current address.
PrintAttrval_NoError(opname) ==
  IF dw.attrval.at = "DW_AT_const_value"
    THEN Advance(<<opname, "<constant value>">>)
    ELSE LET r == dwarf_getlocation_addr(dw.attrval.locs, Top.addr)
         IN IF r.locs = 0
              THEN Advance(<<opname, "<no location>">>)
              ELSE Nest("attrval", r.ops, <<opname, "{">>)

PrintAttrval(opname) ==
  IF dw.attrval.at = "DW_AT_const_value"
    THEN Advance(<<opname, "<constant value>">>)
    ELSE LET r == dwarf_getlocation_addr(dw.attrval.locs, Top.addr)
         IN IF r.locs = 0
              THEN Advance(<<opname, "<no location>">>)
            ELSE IF r.locs = 1
              THEN Nest("attrval", r.ops, <<opname, "{">>)
            ELSE Fail("dwarf_getlocation_addr attrval")

\* What the call of line 465 or 505 returns, when the operation gets there.
Lookup(reached) ==
  IF reached /\ Top.depth <= MAX_DEPTH /\ dw.attrval.at # "DW_AT_const_value"
    THEN dwarf_getlocation_addr(dw.attrval.locs, Top.addr)
    ELSE NoLookup

\* Lines 425-477: DW_OP_implicit_pointer, DW_OP_GNU_implicit_pointer.  The
\* two accessors of lines 434 and 440 return the same attribute.
PrintImplicitPointer ==
  /\ AtOp("DW_OP_implicit_pointer")
  /\ LET rc_ptr == dwarf_getlocation_implicit_pointer(Top.attr)
         rc_attr == dwarf_getlocation_attr(Top.attr)
         rc_die == dwarf_getlocation_die(Top.attr)
     IN /\ last' = [Called("DW_OP_implicit_pointer", "n/a") EXCEPT
                      !.loc = Lookup(rc_ptr = 0 /\ rc_attr = 0 /\ rc_die = 0)]
        /\ Guarded(
         IF Top.attr = "NULL"
           THEN Fail("DW_OP_implicit_pointer used in CFI")
         ELSE IF rc_ptr # 0
           THEN Fail("dwarf_getlocation_implicit_pointer")
         ELSE IF rc_attr # 0
           THEN Fail("dwarf_getlocation_attr")
         ELSE IF rc_die # 0
           THEN Fail("dwarf_getlocation_die")
         ELSE PrintAttrval("DW_OP_implicit_pointer "))
  /\ UNCHANGED <<rvars, env>>

\* Lines 479-517: DW_OP_GNU_variable_value.
PrintVariableValue ==
  /\ AtOp("DW_OP_GNU_variable_value")
  /\ LET rc_attr == dwarf_getlocation_attr(Top.attr)
         rc_die == dwarf_getlocation_die(Top.attr)
     IN /\ last' = [Called("DW_OP_GNU_variable_value", "n/a") EXCEPT
                      !.loc = Lookup(rc_attr = 0 /\ rc_die = 0)]
        /\ Guarded(
         IF Top.attr = "NULL"
           THEN Fail("DW_OP_GNU_variable_value used in CFI")
         ELSE IF rc_attr # 0
           THEN Fail("dwarf_getlocation_attr")
         ELSE IF rc_die # 0
           THEN Fail("dwarf_getlocation_die")
         ELSE PrintAttrval("DW_OP_GNU_variable_value "))
  /\ UNCHANGED <<rvars, env>>

\* Expressions whose operations refer to further expressions.
CallAtoms ==
  {"DW_OP_breg7", "DW_OP_call4", "DW_OP_entry_value",
   "DW_OP_implicit_pointer", "DW_OP_call_frame_cfa"}

\* An executable with .eh_frame CFI; every operand leads to a DIE, and the DIE
\* that the operations refer to has the location expression ops, which is
\* also what an entry value block and the CFA of a frame hold.
InitCall ==
  /\ ResolverIdle
  /\ is_ET_REL = FALSE
  /\ is_debug = FALSE
  /\ cfi_eh = "eh"
  /\ cfi_debug = "NULL"
  /\ has_frame_base = FALSE
  /\ offset = -1
  /\ \E e \in ExprsOf(CallAtoms, 1), ops \in ExprsOf(CallAtoms, 0) :
       /\ frames = <<[attr |-> "attr", exprs |-> e, i |-> 1, addr |-> 0,
                      depth |-> 0]>>
       /\ dw = [NoData EXCEPT
                  !.call_ops = ops, !.entry_ops = ops, !.cfa_ops = ops,
                  !.attrval = [at |-> "DW_AT_location",
                               locs |-> <<[begin |-> 0, end |-> MaxAddr + 1,
                                           ops |-> ops]>>]]
  /\ est = "run"
  /\ err = ""
  /\ out = <<>>
  /\ last = NoCall

NextCall ==
  \/ PrintBreg
  \/ PrintCall
  \/ PrintEntryValue
  \/ PrintImplicitPointer
  \/ PrintCallFrameCfaIn({dw.cfa_ops})
  \/ BlockDone

SpecCall == InitCall /\ [][NextCall]_vars

\* --------------------------------------------- print_varlocs: location lists
\* Lines 204-237: the operations without arguments.
PrintNoArg ==
  /\ AtOp("DW_OP_stack_value")
  /\ last' = Called("DW_OP_stack_value", "n/a")
  /\ Guarded(Advance(<<"DW_OP_stack_value">>))
  /\ UNCHANGED <<rvars, env>>

\* Line 844: begin >= end.
EmptyRange_Strict(e) == e.begin > e.end

EmptyRange(e) == e.begin >= e.end

\* The list that is walked, and the entry dwarf_getlocations yielded last.
Locs == dw.attrval.locs

\* Lines 841-850: dwarf_getlocations yields the next entry of the list; an
\* empty range is reported, any other entry is printed for its begin address.
GetLocations ==
  /\ est = "scan"
  /\ offset < Len(Locs)
  /\ LET e == Locs[offset + 1]
     IN IF EmptyRange(e)
          THEN /\ offset' = offset + 1
               /\ out' = Append(out, "<empty range>")
               /\ UNCHANGED <<frames, est>>
          ELSE /\ frames' = <<[attr |-> "attr", exprs |-> e.ops, i |-> 1,
                               addr |-> e.begin, depth |-> 0]>>
               /\ est' = "run"
               /\ out' = Append(out, "{")
               /\ UNCHANGED offset
  /\ UNCHANGED <<rvars, is_ET_REL, is_debug, cfi_eh, cfi_debug,
                 has_frame_base, dw, err, last>>

\* Lines 852-863: after the entry is printed, dwarf_getlocation_addr must
\* find one location at begin and one at end - 1 (assert).
SanityCheck ==
  /\ est = "done"
  /\ offset >= 0
  /\ offset < Len(Locs)
  /\ LET e == Locs[offset + 1]
         at_begin == dwarf_getlocation_addr(Locs, e.begin).locs
         at_last == dwarf_getlocation_addr(Locs, e.end - 1).locs
     IN IF at_begin = 1 /\ at_last = 1
          THEN /\ est' = "scan"
               /\ offset' = offset + 1
               /\ UNCHANGED err
          ELSE /\ est' = "error"
               /\ err' = "assert (locs == 1)"
               /\ UNCHANGED offset
  /\ UNCHANGED <<rvars, is_ET_REL, is_debug, cfi_eh, cfi_debug,
                 has_frame_base, dw, frames, out, last>>

\* Line 841: dwarf_getlocations returns 0, the list is through.
LocationsEnd ==
  /\ est = "scan"
  /\ offset = Len(Locs)
  /\ est' = "done"
  /\ UNCHANGED <<rvars, env, frames, err, out, last>>

\* Entries [begin, end) of a location list, each with its expression.
LocEntries ==
  [begin : 0 .. MaxAddr + 1, end : 0 .. MaxAddr + 1,
   ops : {<<"DW_OP_breg7">>, <<"DW_OP_stack_value">>}]

LocLists == UNION {[1 .. n -> LocEntries] : n \in 0 .. MaxLocs}

\* Expressions that refer to a DIE with a constant value or a location.
LocExprs == {<<"DW_OP_implicit_pointer">>, <<"DW_OP_GNU_variable_value">>}

\* Either an expression that refers to a variable is printed for an address
\* (lines 806-836), or the location list of the variable is walked (lines
\* 839-864).
InitLoc ==
  /\ ResolverIdle
  /\ is_ET_REL = FALSE
  /\ is_debug = FALSE
  /\ cfi_eh = "NULL"
  /\ cfi_debug = "NULL"
  /\ has_frame_base = FALSE
  /\ \/ /\ dw \in {NoData}
             \cup {[NoData EXCEPT !.attrval = [at |-> "DW_AT_location",
                                               locs |-> l]] : l \in LocLists}
        /\ \E e \in LocExprs, a \in 0 .. MaxAddr + 1 :
             frames = <<[attr |-> "attr", exprs |-> e, i |-> 1, addr |-> a,
                         depth |-> 0]>>
        /\ est = "run"
        /\ offset = -1
     \/ /\ \E l \in LocLists :
             dw = [NoData EXCEPT !.attrval = [at |-> "DW_AT_location",
                                              locs |-> l]]
        /\ frames = <<>>
        /\ est = "scan"
        /\ offset = 0
  /\ err = ""
  /\ out = <<>>
  /\ last = NoCall

NextLoc ==
  \/ PrintBreg
  \/ PrintNoArg
  \/ PrintImplicitPointer
  \/ PrintVariableValue
  \/ BlockDone
  \/ GetLocations
  \/ SanityCheck
  \/ LocationsEnd

SpecLoc == InitLoc /\ [][NextLoc]_vars

\* ------------------------------------------ print_expr: types and blocks
\* Lines 122-148: print_base_type: the error it ends in ("" for none) and the
\* number of bits it prints.
print_base_type_Bits(base) ==
  IF base.tag # "DW_TAG_base_type"
    THEN [err |-> "not a base type", bits |-> -1]
  ELSE IF ~base.encoding
    THEN [err |-> "base type without encoding", bits |-> -1]
  ELSE IF base.bit_size # -1
    THEN [err |-> "", bits |-> base.bit_size]
  ELSE IF base.byte_size # -1
    THEN [err |-> "", bits |-> base.byte_size * 8]
  ELSE [err |-> "base type without byte or bit size", bits |-> -1]

print_base_type(base) ==
  IF base.tag # "DW_TAG_base_type"
    THEN [err |-> "not a base type", bits |-> -1]
  ELSE IF ~base.encoding
    THEN [err |-> "base type without encoding", bits |-> -1]
  ELSE IF base.byte_size # -1
    THEN [err |-> "", bits |-> base.byte_size * 8]
  ELSE IF base.bit_size # -1
    THEN [err |-> "", bits |-> base.bit_size]
  ELSE [err |-> "base type without byte or bit size", bits |-> -1]

\* dwarf_formblock on an attribute that was found.
dwarf_formblock == IF dw.block_ok THEN 0 ELSE -1

\* dwarf_getlocation_implicit_value (attr, expr, &block_impl).
dwarf_getlocation_implicit_value(a) ==
  IF a = "NULL" \/ ~dw.block_ok THEN -1 ELSE 0

\* The size the operation printed, when it got as far as print_base_type.
Decoded(reached) ==
  IF reached /\ Top.depth <= MAX_DEPTH
    THEN print_base_type(dw.type).bits
    ELSE -1

\* Lines 590-604: DW_OP_regval_type, DW_OP_GNU_regval_type.  The DIE found
\* is the one the operand names (assert of line 599).
PrintRegvalType ==
  /\ AtOp("DW_OP_regval_type")
  /\ LET rc_die == dwarf_getlocation_die(Top.attr)
         base == print_base_type(dw.type)
     IN /\ last' = [Called("DW_OP_regval_type", "n/a") EXCEPT
                      !.bits = Decoded(rc_die = 0)]
        /\ Guarded(
             IF rc_die # 0
               THEN Fail("dwarf_getlocation_die")
             ELSE IF base.err # ""
               THEN /\ est' = "error"
                    /\ err' = base.err
                    /\ out' = out \o <<"DW_OP_regval_type(reg)">>
                    /\ UNCHANGED frames
             ELSE Advance(<<"DW_OP_regval_type(reg)", "{base type}">>))
  /\ UNCHANGED <<rvars, env>>

\* Lines 636-665: DW_OP_const_type, DW_OP_GNU_const_type.
PrintConstType ==
  /\ AtOp("DW_OP_const_type")
  /\ LET rc_die == dwarf_getlocation_die(Top.attr)
         rc_attr == dwarf_getlocation_attr(Top.attr)
         rc_block == dwarf_formblock
         base == print_base_type(dw.type)
     IN /\ last' = [Called("DW_OP_const_type", "n/a") EXCEPT
                      !.bits = Decoded(rc_die = 0 /\ rc_attr = 0
                                         /\ rc_block = 0)]
        /\ Guarded(
             IF rc_die # 0
               THEN Fail("dwarf_getlocation_die")
             ELSE IF rc_attr # 0
               THEN Fail("dwarf_getlocation_attr for type")
             ELSE IF rc_block # 0
               THEN Fail("dwarf_formblock for type")
             ELSE IF base.err # ""
               THEN /\ est' = "error"
                    /\ err' = base.err
                    /\ out' = out \o <<"DW_OP_const_type">>
                    /\ UNCHANGED frames
             ELSE Advance(<<"DW_OP_const_type", "{base type}", "(length)[">>
                          \o dw.block \o <<"]">>))
  /\ UNCHANGED <<rvars, env>>

\* Lines 413-414: the two assertions on the lengths.
LengthsAgree_Blocks(number, block, block_impl) ==
  Len(block) = Len(block_impl)

LengthsAgree(number, block, block_impl) ==
  /\ number = Len(block)
  /\ Len(block) = Len(block_impl)

\* Lines 416-420: the bytes printed before the loop ends or the assertion
\* of line 419 fails: each byte is printed before it is compared.
Differ(block, block_impl) ==
  {i \in 1 .. Len(block) : block[i] # block_impl[i]}

FirstDiffer(block, block_impl) ==
  CHOOSE i \in Differ(block, block_impl) :
    \A j \in Differ(block, block_impl) : i <= j

\* Lines 394-423: DW_OP_implicit_value.  A failed assertion aborts the
\* program.
PrintImplicitValue ==
  /\ AtOp("DW_OP_implicit_value")
  /\ last' = Called("DW_OP_implicit_value", "n/a")
  /\ Guarded(
       IF dwarf_getlocation_attr(Top.attr) # 0
         THEN Fail("dwarf_getlocation_attr")
       ELSE IF dwarf_formblock # 0
         THEN Fail("dwarf_formblock")
       ELSE IF dwarf_getlocation_implicit_value(Top.attr) # 0
         THEN Fail("dwarf_getlocation_implicit_value")
       ELSE IF ~LengthsAgree(dw.number, dw.block, dw.block_impl)
         THEN Fail("assert (length)")
       ELSE IF Differ(dw.block, dw.block_impl) # {}
         THEN /\ est' = "error"
              /\ err' = "assert (block.data[i] == block_impl.data[i])"
              /\ out' = out \o <<"DW_OP_implicit_value(length){">>
                           \o SubSeq(dw.block, 1,
                                     FirstDiffer(dw.block, dw.block_impl))
              /\ UNCHANGED frames
       ELSE Advance(<<"DW_OP_implicit_value(length){">> \o dw.block
                    \o <<"}">>))
  /\ UNCHANGED <<rvars, env>>

\* The base type DIEs, blocks and expressions of the typed evaluations.
Sizes == -1 .. MaxSize

BaseTypes ==
  [tag : {"DW_TAG_base_type", "DW_TAG_structure_type"},
   encoding : BOOLEAN, byte_size : Sizes, bit_size : Sizes]

Bytes == {"00", "01"}

Blocks == UNION {[1 .. n -> Bytes] : n \in 0 .. MaxBlock}

TypedAtoms == {"DW_OP_regval_type", "DW_OP_const_type"}

\* One evaluation at depth 0 with an attribute: either an expression of
\* typed operations over any base type DIE and block, or one
\* DW_OP_implicit_value over any operand and pair of blocks.
InitTyped ==
  /\ ResolverIdle
  /\ is_ET_REL = FALSE
  /\ is_debug = FALSE
  /\ cfi_eh = "NULL"
  /\ cfi_debug = "NULL"
  /\ has_frame_base = FALSE
  /\ \/ /\ \E t \in BaseTypes, b \in Blocks, d \in BOOLEAN, k \in BOOLEAN :
             dw = [NoData EXCEPT !.type = t, !.block = b, !.die_ok = d,
                                 !.block_ok = k]
        /\ \E e \in ExprsOf(TypedAtoms, 1) :
             frames = <<[attr |-> "attr", exprs |-> e, i |-> 1, addr |-> 0,
                         depth |-> 0]>>
     \/ /\ \E n \in 0 .. MaxBlock, b \in Blocks, bi \in Blocks,
              k \in BOOLEAN :
             dw = [NoData EXCEPT !.number = n, !.block = b,
                                 !.block_impl = bi, !.block_ok = k]
        /\ frames = <<[attr |-> "attr",
                       exprs |-> <<"DW_OP_implicit_value">>, i |-> 1,
                       addr |-> 0, depth |-> 0]>>
  /\ est = "run"
  /\ offset = -1
  /\ err = ""
  /\ out = <<>>
  /\ last = NoCall

NextTyped ==
  \/ PrintRegvalType
  \/ PrintConstType
  \/ PrintImplicitValue
  \/ BlockDone

SpecTyped == InitTyped /\ [][NextTyped]_vars

\* ------------------------------------- print_expr: expressions from CFI
\* Lines 300-307: DW_OP_push_object_address.
PrintPushObjectAddress_Any ==
  /\ AtOp("DW_OP_push_object_address")
  /\ last' = Called("DW_OP_push_object_address", "n/a")
  /\ Guarded(Advance(<<"DW_OP_push_object_address">>))
  /\ UNCHANGED <<rvars, env>>

PrintPushObjectAddress ==
  /\ AtOp("DW_OP_push_object_address")
  /\ last' = Called("DW_OP_push_object_address", "n/a")
  /\ Guarded(
       IF Top.attr = "NULL"
         THEN Fail("DW_OP_push_object_address used in CFI")
         ELSE Advance(<<"DW_OP_push_object_address">>))
  /\ UNCHANGED <<rvars, env>>

\* Lines 371-380: DW_OP_fbreg.
PrintFbreg ==
  /\ AtOp("DW_OP_fbreg")
  /\ last' = Called("DW_OP_fbreg", "n/a")
  /\ Guarded(
       IF Top.attr = "NULL"
         THEN Fail("DW_OP_fbreg used in CFI")
       ELSE IF ~has_frame_base
         THEN Fail("DW_OP_fbreg used without a frame base")
       ELSE Advance(<<"DW_OP_fbreg">>))
  /\ UNCHANGED <<rvars, env>>

\* Lines 667-683: DW_OP_addrx, DW_OP_GNU_addr_index.  rc is what
\* dwarf_formaddr returns for the attribute found.
PrintAddrx ==
  /\ AtOp("DW_OP_addrx")
  /\ last' = Called("DW_OP_addrx", "n/a")
  /\ \E rc \in {0, -1} :
       Guarded(
         IF dwarf_getlocation_attr(Top.attr) # 0
           THEN Fail("dwarf_getlocation_attr for addr")
         ELSE IF rc # 0
           THEN Fail("dwarf_formaddr address failed")
         ELSE Advance(<<"addr: ">>))
  /\ UNCHANGED <<rvars, env>>

\* The operations that read the attribute they are evaluated with, and one
\* that does not.
AttrAtoms ==
  {"DW_OP_call_frame_cfa", "DW_OP_push_object_address", "DW_OP_call4",
   "DW_OP_fbreg", "DW_OP_implicit_pointer", "DW_OP_GNU_variable_value",
   "DW_OP_entry_value", "DW_OP_regval_type", "DW_OP_const_type",
   "DW_OP_addrx"}

CfiAtoms == AttrAtoms \cup {"DW_OP_breg7"}

\* One expression of a DIE attribute at depth 0: either DW_OP_call_frame_cfa
\* alone or the expression that the CFI of the address also gives for the
\* CFA.  The expressions of called DIEs and entry values are one register
\* operation.
InitCfi ==
  /\ ResolverIdle
  /\ is_ET_REL = FALSE
  /\ is_debug = FALSE
  /\ cfi_eh = "eh"
  /\ cfi_debug = "NULL"
  /\ has_frame_base \in BOOLEAN
  /\ offset = -1
  /\ \E ops \in ExprsOf(CfiAtoms, 1) :
       /\ dw = [NoData EXCEPT !.cfa_ops = ops,
                              !.call_ops = <<"DW_OP_breg7">>,
                              !.entry_ops = <<"DW_OP_breg7">>]
       /\ \E e \in {<<"DW_OP_call_frame_cfa">>, ops} :
            frames = <<[attr |-> "attr", exprs |-> e, i |-> 1, addr |-> 0,
                        depth |-> 0]>>
  /\ est = "run"
  /\ err = ""
  /\ out = <<>>
  /\ last = NoCall

NextCfi ==
  \/ PrintBreg
  \/ PrintCallFrameCfaIn({dw.cfa_ops})
  \/ PrintPushObjectAddress
  \/ PrintCall
  \/ PrintFbreg
  \/ PrintImplicitPointer
  \/ PrintVariableValue
  \/ PrintEntryValue
  \/ PrintRegvalType
  \/ PrintConstType
  \/ PrintAddrx
  \/ BlockDone

SpecCfi == InitCfi /\ [][NextCfi]_vars

\* ------------------------------------------- print_expr: reference cycles
\* The operations that evaluate the expression of another DIE or block, and
\* one that does not.
CycleAtoms ==
  {"DW_OP_call4", "DW_OP_entry_value", "DW_OP_implicit_pointer",
   "DW_OP_GNU_variable_value", "DW_OP_breg7"}

\* One expression e of a DIE attribute at depth 0.  Every reference in it
\* leads to the same expression: nothing, one register operation, or e
\* itself (a cycle).
InitCycle ==
  /\ ResolverIdle
  /\ is_ET_REL = FALSE
  /\ is_debug = FALSE
  /\ cfi_eh = "NULL"
  /\ cfi_debug = "NULL"
  /\ has_frame_base = FALSE
  /\ offset = -1
  /\ \E e \in ExprsOf(CycleAtoms, 1) :
       /\ frames = <<[attr |-> "attr", exprs |-> e, i |-> 1, addr |-> 0,
                      depth |-> 0]>>
       /\ \E ops \in {<<>>, <<"DW_OP_breg7">>, e} :
            dw = [NoData EXCEPT
                    !.call_ops = ops, !.entry_ops = ops,
                    !.attrval = [at |-> "DW_AT_location",
                                 locs |-> <<[begin |-> 0, end |-> MaxAddr + 1,
                                             ops |-> ops]>>]]
  /\ est = "run"
  /\ err = ""
  /\ out = <<>>
  /\ last = NoCall

NextCycle ==
  \/ PrintBreg
  \/ PrintCall
  \/ PrintEntryValue
  \/ PrintImplicitPointer
  \/ PrintVariableValue
  \/ BlockDone

\* print_expr_block is a loop of a sequential program: while an operation
\* or the end of a block is ahead, the next step is taken.
SpecCycle == InitCycle /\ [][NextCycle]_vars /\ WF_vars(NextCycle)

\* ----------------------------------------------- resolver: observations
Done(c) == pc[c] = "done"

\* No call is between its entry and its return.
Quiescent == \A c \in Callers : pc[c] \in {"idle", "done"}

Count(c, e) == Cardinality({i \in DOMAIN trace[c] : trace[c][i] = e})

Linked(v) == v # NULL /\ v # Unresolved

Resolved(u) == CU(u).split # Unresolved

Skeleton(u) == CU(u).unit_type = "DW_UT_skeleton"

\* The companion file of c's call matches at header position i.
MatchAt(c, i) ==
  /\ file[c][i].unit_type = "DW_UT_split_compile"
  /\ file[c][i].unit_id8 = CU(cu[c]).unit_id8

\* Position of the first matching unit of the companion file, 0 if none.
FirstMatch(c) ==
  IF \E i \in DOMAIN file[c] : MatchAt(c, i)
    THEN CHOOSE i \in DOMAIN file[c] :
           MatchAt(c, i) /\ \A j \in 1 .. (i - 1) : ~MatchAt(c, j)
    ELSE 0

\* The call of c went through the resolution path and something on it failed.
Failed(c) ==
  /\ entry[c] = Unresolved
  /\ Skeleton(cu[c])
  /\ \/ ~CU(cu[c]).dwo_name
     \/ dwo_path[c] = "NULL"
     \/ split_fd[c] = -1
     \/ split_dwarf[c] = 0
     \/ FirstMatch(c) = 0

\* ---------------------------------------------- evaluator: observations
\* The token t was printed.
Printed(t) == \E i \in DOMAIN out : out[i] = t

\* Entries of the list whose half-open range holds the address.
Cover(a) == {i \in DOMAIN Locs : Locs[i].begin <= a /\ a < Locs[i].end}

\* The latest operation looked a location up at its address.
LookedUp == last.loc.locs # -2

\* The walk of the list stopped on the assertion of line 859 or 863.
AssertFailed == est = "error" /\ err = "assert (locs == 1)"

\* ---------------------------------------------------------------- claims

\* C1: once a unit's link is resolved it never goes back to Unresolved and
\* never changes, and a resolve call that finds the link resolved returns
\* exactly that link without any Locator query, open, parse or scan.
C1_ResolveOnce ==
  [][/\ \A u \in LiveUnits :
          Resolved(u) => u \in LiveUnits' /\ CU(u)'.split = CU(u).split
     /\ \A c \in Callers :
          (pc'[c] = "done" /\ entry'[c] # Unresolved)
            => /\ ret'[c] = entry'[c]
               /\ trace'[c] = <<>>
               /\ \A u \in LiveUnits' : u = cu'[c] => CU(u)'.split = entry'[c]]_vars

\* C1 witness: a second resolve of a skeleton that is linked to a split unit.
C1_Witness ==
  \E c \in Callers :
    /\ Done(c) /\ Skeleton(cu[c])
    /\ Linked(entry[c]) /\ ret[c] = entry[c] /\ trace[c] = <<>>

\* C2: in every state with no call in progress, a skeleton linked to a split
\* unit D has D's link pointing back at it.
C2_Symmetry ==
  Quiescent =>
    \A s \in MainHandles :
      (Skeleton(s) /\ Linked(CU(s).split))
        => Exists(CU(s).split) /\ CU(CU(s).split).split = s

\* C3: when the companion container parses, resolve returns the first unit in
\* header order that is a split compile unit with the skeleton's signature,
\* wherever it stands, and none if there is no such unit.
C3_FirstMatch ==
  \A c \in Callers :
    (Done(c) /\ split_dwarf[c] > 0)
      => /\ ret[c] = IF FirstMatch(c) = 0
                       THEN NULL
                       ELSE [dbg |-> split_dwarf[c], idx |-> FirstMatch(c)]
         /\ CU(cu[c]).split = ret[c]

\* C4: with no call in progress the process has as many open descriptors as
\* before the first call (none), and a call that opened a companion file has
\* closed it exactly once by the time it returns.
C4_NoDescriptorLeak ==
  /\ Quiescent => fds = {}
  /\ \A c \in Callers :
       Done(c) => /\ Count(c, "close") = IF split_fd[c] # -1 THEN 1 ELSE 0
                  /\ split_fd[c] \notin fds

\* C4 witness: a call that opened and parsed a companion file has returned.
C4_Witness ==
  \E c \in Callers :
    Done(c) /\ split_fd[c] # -1 /\ split_dwarf[c] > 0 /\ Count(c, "close") = 1

\* C5: a call that parsed a companion container and returns none has
\* discarded that container.
C5_DiscardedOnNone ==
  \A c \in Callers :
    (Done(c) /\ split_dwarf[c] > 0 /\ ret[c] = NULL)
      => Ended(split_dwarf[c])

\* C6: a call that links the skeleton to a split unit returns with that
\* unit's container still resident and its descriptor detached.
C6_DetachedResident ==
  \A c \in Callers :
    (Done(c) /\ entry[c] = Unresolved /\ Linked(ret[c]))
      => /\ ret[c].dbg = split_dwarf[c]
         /\ ~Ended(split_dwarf[c])
         /\ dwos[split_dwarf[c]].fildes = -1

\* C7: resolve never ends in a fatal error, and every failure on the
\* resolution path returns none with the link set to NoneFound.
C7_SoftFailure ==
  /\ ~crashed
  /\ \A c \in Callers :
       (Done(c) /\ Failed(c)) => ret[c] = NULL /\ CU(cu[c]).split = NULL

\* C8 as stated: resolve of a unit that is not a skeleton returns none and
\* makes no Locator query, open or scan.
C8_NonSkeletonNone ==
  \A c \in Callers :
    (Done(c) /\ ~Skeleton(cu[c])) => ret[c] = NULL /\ trace[c] = <<>>

\* C8 amended: resolve of a unit that is not a skeleton makes no Locator
\* query, open or scan and returns the unit's link: none, or the skeleton that
\* an earlier resolve linked to this unit.
C8_NonSkeletonLink ==
  \A c \in Callers :
    (Done(c) /\ ~Skeleton(cu[c]))
      => /\ trace[c] = <<>>
         /\ ret[c] = CU(cu[c]).split
         /\ \/ ret[c] = NULL
            \/ /\ ret[c] \in MainHandles
               /\ Skeleton(ret[c])
               /\ CU(ret[c]).split = cu[c]

\* C8 witness: resolve of a split unit that a skeleton is linked to.
C8_Witness ==
  \E c \in Callers :
    /\ Done(c) /\ ~Skeleton(cu[c])
    /\ ret[c] \in MainHandles /\ trace[c] = <<>>

\* C9: two callers resolving the same unit never both open the companion
\* file, and never both scan it.
C9_AtMostOnce ==
  \A c1, c2 \in Callers :
    (c1 # c2 /\ cu[c1] # NULL /\ cu[c1] = cu[c2])
      => /\ ~(Count(c1, "open") > 0 /\ Count(c2, "open") > 0)
         /\ ~(Count(c1, "get_units") > 0 /\ Count(c2, "get_units") > 0)

\* C10: printing DW_OP_call_frame_cfa ends in a hard error when the source
\* attribute is null, whatever the modes and tables; and with an attribute, when
\* the file is neither an object file nor printed with --debug and neither CFI
\* table has a frame for the address.
C10_CfaHardError ==
  last.atom = "DW_OP_call_frame_cfa"
    => /\ last.attr = "NULL" => est = "error"
       /\ (last.attr # "NULL" /\ ~is_ET_REL /\ ~is_debug /\ last.frame # "found")
            => est = "error"

\* C10 witness: strict mode, an attribute, a CFI table that has no frame for
\* the address.
C10_Witness ==
  /\ last.atom = "DW_OP_call_frame_cfa" /\ last.attr # "NULL"
  /\ ~is_ET_REL /\ ~is_debug /\ last.frame = "none"
  /\ est = "error" /\ err = "dwarf_cfi_addrframe"

\* C11 as stated: with an attribute and no frame from either CFI table (both
\* tables absent included), printing DW_OP_call_frame_cfa for an object file or
\* under --debug prints the placeholder and never ends in a hard error.
C11_RelaxedPlaceholder ==
  (/\ last.atom = "DW_OP_call_frame_cfa" /\ last.attr # "NULL"
   /\ (is_ET_REL \/ is_debug) /\ last.frame # "found")
    => est # "error" /\ Printed("{...}")

\* C11 amended: the placeholder is printed when the lookup was made (a CFI
\* table is present, or --debug was given) and found no frame; for an object
\* file without --debug and with both tables absent the operation is the hard
\* error "no cfi found".
C11_RelaxedPlaceholderCfi ==
  (last.atom = "DW_OP_call_frame_cfa" /\ last.attr # "NULL"
     /\ last.depth <= MAX_DEPTH)
    => /\ ((is_ET_REL \/ is_debug) /\ last.frame = "none")
            => est # "error" /\ Printed("{...}")
       /\ (cfi_eh = "NULL" /\ cfi_debug = "NULL" /\ ~is_debug)
            => /\ est = "error"
               /\ err = "DW_OP_call_frame_cfa used but no cfi found."
       /\ (is_debug \/ cfi_eh # "NULL" \/ cfi_debug # "NULL")
            => last.frame # "n/a"

\* C11 witness: an object file without --debug, a CFI table that has no frame
\* for the address, the placeholder printed.
C11_Witness ==
  /\ last.atom = "DW_OP_call_frame_cfa" /\ last.attr # "NULL"
  /\ is_ET_REL /\ ~is_debug /\ last.frame = "none"
  /\ est # "error" /\ Printed("{...}")

\* C12: the depth of a block is the number of nested blocks (DIE call, entry
\* value, implicit pointer location, CFA expression) between it and the
\* top-level expression; an operation at depth 64 or less never ends in the
\* depth error, a plain operation at depth 64 is printed, and an operation at
\* depth 65 ends in the depth error.
C12_DepthCap ==
  /\ \A i \in DOMAIN frames : frames[i].depth = i - 1
  /\ last.atom # "none"
       => /\ last.depth <= MAX_DEPTH + 1
          /\ last.depth <= MAX_DEPTH
               => err # "print_expr recursion depth exceeded"
          /\ (last.depth = MAX_DEPTH /\ last.atom = "DW_OP_breg7")
               => est # "error"
          /\ last.depth = MAX_DEPTH + 1
               => /\ est = "error"
                  /\ err = "print_expr recursion depth exceeded"

\* C12 witness: the first operation of the block at depth 64 was printed,
\* its second operation opened the block at depth 65, whose first operation
\* ended in the depth error.
C12_Witness ==
  /\ est = "error" /\ err = "print_expr recursion depth exceeded"
  /\ last.depth = MAX_DEPTH + 1
  /\ Len(frames) = MAX_DEPTH + 2
  /\ frames[MAX_DEPTH + 1].exprs[1] = "DW_OP_breg7"
  /\ frames[MAX_DEPTH + 1].i = 2

C14_ImplicitLocation ==
  (last.atom \in {"DW_OP_implicit_pointer", "DW_OP_GNU_variable_value"}
     /\ LookedUp)
    => LET c == Cover(last.addr)
       IN /\ c = {}
               => /\ est # "error"
                  /\ Printed("<no location>")
                  /\ Len(frames) <= last.depth + 1
          /\ Cardinality(c) = 1
               => /\ est = "run"
                  /\ Len(frames) = last.depth + 2
                  /\ Top.depth = last.depth + 1
                  /\ Top.addr = last.addr
                  /\ Top.i = 1
                  /\ \A i \in c : Top.exprs = Locs[i].ops
          /\ Cardinality(c) > 1
               => /\ est = "error"
                  /\ err = "dwarf_getlocation_addr attrval"
                  /\ Len(frames) = last.depth + 1

\* C14 witness: a list of two entries of which one covers the address, its
\* expression opened as a nested block.
C14_Witness ==
  /\ last.atom = "DW_OP_implicit_pointer" /\ LookedUp
  /\ Len(Locs) = 2 /\ Cover(last.addr) = {2}
  /\ Len(frames) = 2 /\ Top.exprs = Locs[2].ops /\ est = "run"

\* What the latest typed operation found of the base type DIE.
Reached(a) == last.atom = a /\ last.depth <= MAX_DEPTH

TypeRead(a) ==
  /\ Reached(a)
  /\ dw.die_ok
  /\ a = "DW_OP_const_type" => dw.block_ok

\* C15: decoding a base type ends in a hard error when the DIE has no
\* readable encoding, and when it has neither a readable byte size nor a
\* readable bit size; otherwise it reports the byte size times 8 when the
\* byte size is readable and the bit size when only that is readable.
C15_BaseType ==
  \A a \in TypedAtoms :
    TypeRead(a) =>
      /\ ~dw.type.encoding => est = "error" /\ last.bits = -1
      /\ dw.type.byte_size = -1 /\ dw.type.bit_size = -1
           => est = "error" /\ last.bits = -1
      /\ dw.type.tag = "DW_TAG_base_type" /\ dw.type.encoding
           => /\ dw.type.byte_size # -1
                   => last.bits = dw.type.byte_size * 8 /\ est # "error"
              /\ dw.type.byte_size = -1 /\ dw.type.bit_size # -1
                   => last.bits = dw.type.bit_size /\ est # "error"

\* A base type of byte size 4 and a readable bit size was reported as 32
\* bits.
C15_Witness ==
  /\ TypeRead("DW_OP_regval_type")
  /\ dw.type.byte_size = 4
  /\ dw.type.bit_size # -1
  /\ last.bits = 32
  /\ est = "done"

\* C16: an evaluation of the typed constant operation in which the length
\* of the block differs from the byte size of the base type is rejected.
C16_ConstSize ==
  /\ TypeRead("DW_OP_const_type")
  /\ dw.type.byte_size # -1
  /\ Len(dw.block) # dw.type.byte_size
  => est = "error"

\* C17: when the operand of the implicit value operation, the block read
\* from the attribute and the block of the dedicated accessor disagree in
\* length or in a byte, the evaluation aborts and the value is not
\* rendered; when they agree the block is rendered whole.
C17_ImplicitValue ==
  /\ Reached("DW_OP_implicit_value")
  /\ dw.block_ok
  => IF /\ dw.number = Len(dw.block)
        /\ dw.block = dw.block_impl
       THEN /\ est # "error"
            /\ out = <<"DW_OP_implicit_value(length){">> \o dw.block
                      \o <<"}">> \o (IF est = "done" THEN <<"}">> ELSE <<>>)
       ELSE /\ est = "error"
            /\ ~Printed("}")

\* Two blocks of the same length as the operand that differ in their last
\* byte: the evaluation aborted after it printed the bytes.
C17_Witness ==
  /\ Reached("DW_OP_implicit_value")
  /\ dw.number = 2
  /\ Len(dw.block) = 2
  /\ Len(dw.block_impl) = 2
  /\ dw.block[1] = dw.block_impl[1]
  /\ dw.block[2] # dw.block_impl[2]
  /\ est = "error"
  /\ Len(out) = 3


\* The block that DW_OP_call_frame_cfa of the frame below started.
FromCfi(k) ==
  /\ k > 1
  /\ frames[k - 1].i <= Len(frames[k - 1].exprs)
  /\ frames[k - 1].exprs[frames[k - 1].i] = "DW_OP_call_frame_cfa"

\* C18: an expression derived from call-frame information is evaluated
\* with no attribute, and every operation in it that reads the attribute
\* is a hard error at which the evaluation stops: the operation prints
\* nothing, starts no nested block and is not stepped over.
C18_UsedInCfi ==
  /\ \A k \in DOMAIN frames : FromCfi(k) => frames[k].attr = "NULL"
  /\ last.atom \in AttrAtoms /\ last.attr = "NULL"
       => /\ est = "error"
          /\ Len(frames) = last.depth + 1
          /\ Top.i <= Len(Top.exprs)
          /\ Top.exprs[Top.i] = last.atom
          /\ out[Len(out)] = "{" \/ out[Len(out)] = "DW_OP_breg7"

\* DW_OP_entry_value, which has no test of the attribute of its own, was
\* reached as the second operation of the CFA expression and ended the
\* evaluation.
C18_Witness ==
  /\ last.atom = "DW_OP_entry_value"
  /\ last.attr = "NULL"
  /\ Len(frames) = 2
  /\ Top.i = 2
  /\ est = "error"
  /\ err = "dwarf_getlocation_attr"


\* C19: an operation whose opcode no case of the dispatch handles is a
\* fatal "unhandled opcode" error: the evaluation stays at that operation,
\* which prints nothing, and no later operation of the expression is
\* evaluated.
C19_Unhandled ==
  last.atom = "DW_OP_hi_user"
    => /\ est = "error"
       /\ err = "unhandled opcode"
       /\ Len(frames) = last.depth + 1
       /\ Top.i <= Len(Top.exprs)
       /\ Top.exprs[Top.i] = "DW_OP_hi_user"
       /\ ~Printed("DW_OP_hi_user")

\* An unhandled opcode came first in an expression of two operations: the
\* evaluation ended at it and the second operation was not evaluated.
C19_Witness ==
  /\ last.atom = "DW_OP_hi_user"
  /\ est = "error"
  /\ err = "unhandled opcode"
  /\ Len(frames) = 1
  /\ Top.i = 1
  /\ Top.exprs = <<"DW_OP_hi_user", "DW_OP_breg7">>
  /\ out = <<>>


\* The Locator queries of c's call so far.
Queries == {"filepath(NULL)", "filepath(comp_dir)"}

QueriedCompDir(c) == Count(c, "filepath(comp_dir)")

\* C20: a call queries the Locator first without comp_dir, and with
\* comp_dir only when the first query returned no path and the unit has a
\* comp_dir; it opens at most one file, the path of the first query that
\* returned one, right after that query, and nothing when no query
\* returned a path.
C20_QueryOrder ==
  /\ [](\A c \in Callers :
         /\ Count(c, "filepath(NULL)") <= 1
         /\ QueriedCompDir(c) <= 1
         /\ Count(c, "open") <= 1
         /\ \A i \in DOMAIN trace[c] :
              /\ trace[c][i] = "filepath(NULL)" => i = 1
              /\ trace[c][i] = "filepath(comp_dir)"
                   => i = 2 /\ comp_dir[c] # "NULL"
              /\ trace[c][i] = "open"
                   => /\ i > 1
                      /\ trace[c][i - 1] \in Queries
                      /\ dwo_path[c] = (IF i = 2 THEN "path1" ELSE "path2"))
  /\ [][\A c \in Callers :
         QueriedCompDir(c)' > QueriedCompDir(c) => dwo_path[c] = "NULL"]_vars

\* The first query returned no path, the second one did, and that path was
\* opened.
C20_Witness ==
  \E c \in Callers :
    /\ Len(trace[c]) >= 3
    /\ SubSeq(trace[c], 1, 3)
         = <<"filepath(NULL)", "filepath(comp_dir)", "open">>
    /\ dwo_path[c] = "path2"
    /\ Count(c, "open") = 1


\* The calls of the scan that work on the companion container.
ContainerCalls == {"get_units", "elf_cntl", "dwarf_end"}

\* C21: within one call, once the companion container was discarded no
\* later step reads a unit from it, detaches its descriptor or discards it
\* again, and no container is discarded more than once.
C21_NoUseAfterDiscard ==
  /\ \A c \in Callers :
       \A i \in DOMAIN trace[c] :
         trace[c][i] = "dwarf_end"
           => \A j \in (i + 1) .. Len(trace[c]) :
                trace[c][j] \notin ContainerCalls
  /\ \A d \in DOMAIN dwos : dwos[d].ends <= 1


\* The evaluation is over: the top-level block was printed whole, or an
\* error ended the program.
Rendered == est = "done" /\ frames = <<>> /\ out # <<>>

HardError == est = "error" /\ err # ""

\* C22: every evaluation ends with a rendered result or a hard error, also
\* when the references of an expression lead back to it: each nested block
\* runs at the depth of its parent plus one, the operations of one block
\* run at one depth, and no chain of blocks is longer than the depth cap
\* allows.
C22_Terminates ==
  /\ <>(Rendered \/ HardError)
  /\ [](/\ est \in {"done", "error"} => Rendered \/ HardError
        /\ \A k \in DOMAIN frames :
             frames[k].depth = k - 1 /\ k <= MAX_DEPTH + 2)
  /\ [][\A k \in DOMAIN frames \cap DOMAIN frames' :
          frames'[k].depth = frames[k].depth]_vars

\* A variable value whose location refers to the expression it is in: the
\* chain of blocks reached the depth after the cap and the evaluation ended
\* in the error.
C22_Witness ==
  /\ HardError
  /\ err = "print_expr recursion depth exceeded"
  /\ Len(frames) = MAX_DEPTH + 2
  /\ Top.depth = MAX_DEPTH + 1
  /\ Top.exprs = <<"DW_OP_GNU_variable_value">>
  /\ dw.attrval.locs[1].ops = Top.exprs


====
